---- MODULE Spec2Model ----
(***************************************************************************)
(* A model of autoprepare's SQLStmtCache: the dispatcher entry points      *)
(* (QueryContext and its five siblings), getPS, the background worker wrk  *)
(* with getCandidates / updateHits / dropStmts, the per-statement handle   *)
(* protocol (acquire / release / put / get / wait) and Close.              *)
(*                                                                         *)
(* Granularity: one action per atomic operation or per critical section of *)
(* the source.  A section guarded by c.l that reads or writes only the map *)
(* is one step.  The loops of wrk over the map read or write the hit of    *)
(* one entry per step, since getPS increments s.hit outside c.l.  c.l is   *)
(* held across several steps by wrk in these loops (read lock) and by      *)
(* Close, which keeps the write lock while it waits for handles to drain.  *)
(* An increment of a statistics counter is folded into the neighbouring    *)
(* step of the same goroutine: no goroutine of the program reads those     *)
(* counters.                                                               *)
(***************************************************************************)
EXTENDS Integers, Sequences, FiniteSets, TLC

\* ---------------------------------------------------------------- bounds
NumCallers    == 2           \* dispatcher goroutines of Spec
MaxGoroutines == 3           \* dispatcher goroutines of any application
WorkCalls     == 4           \* dispatcher calls of the applications of SpecWork
MaxCalls      == 3           \* dispatcher calls started in one behaviour
WarmCalls     == 2           \* dispatcher calls of the application of SpecWarm
WarmHit       == 1           \* the hit of an entry of the cache SpecWarm starts from
MaxCloseCalls == 2           \* calls of Close in one behaviour
MaxThreshold  == 1           \* wrkThreshold is 0 .. MaxThreshold

Callers == 1..MaxGoroutines

MaxOpts == 2                 \* options passed to one call of New

\* api.go's constants
DefaultMaxQueryLen     == 4096
DefaultMaxPreparedStmt == 16
DefaultMaxStmt         == 1024
defaultWrkThreshold    == 5000

\* the configuration of the cache that Spec starts from (New's defaults 16 /
\* 1024 / 4096, scaled down)
SmallMaxPS     == 1
SmallMaxStmt   == 2
SmallMaxSqlLen == 1

\* The uint32 fields (psCount, hit, stmt.hit, psHandles) are computed modulo
\* 2^Width.  TLC's integers cannot hold 2^32; in a behaviour of at most MaxCalls
\* calls no counter comes near 2^Width except by wrapping below zero.
Width == 4
U32   == 2 ^ Width

VARIABLES
    maxPS,      \* c.maxPS
    maxStmt,    \* c.maxStmt
    maxSqlLen,  \* c.maxSqlLen
    newCall,    \* the call of New: the options supplied, the next one to apply, the outcome
    goroutines, \* the application: the goroutines that call the dispatcher
    work,       \* the application: the queries it sends
    budget,     \* the application: the number of dispatcher calls it makes
    cycle,      \* history of wrk: was a cycle ever run; psCount and stats as the
                \* scan of the current cycle found them; its database calls so far;
                \* during the scan, the hit of every entry as the scan began
    ent,        \* the *stmt objects ever allocated: Seq of [q, ps, psHandles, hit]
    stmt,       \* c.stmt: the set of entry ids held by the map (keyed by ent[i].q)
    stmtNil,    \* c.stmt == nil
    lock,       \* c.l: "free", or "Close" while Close holds the write lock
    psCount,    \* c.psCount
    hit,        \* c.hit
    wrkStatus,  \* c.wrkStatus
    wrkThreshold, \* c.wrkThreshold (New's default 5000, scaled down)
    stats,      \* c.stats
    db,         \* the database: per prepared statement, Close calls and executions
    caller,     \* per dispatcher goroutine: pc and the locals of the call
    wrk,        \* the worker goroutine: pc and locals of wrk()
    cl,         \* the goroutine that calls Close: pc and locals
    ncalls,     \* dispatcher calls started so far
    panicked    \* "no", or the panic that ended the process

vars == <<maxPS, maxStmt, maxSqlLen, newCall, goroutines, work, budget, cycle,
          ent, stmt, stmtNil, lock, psCount, hit, wrkStatus, wrkThreshold, stats,
          db, caller, wrk, cl, ncalls, panicked>>

\* what New() leaves behind and no later operation assigns, and the application
cfg == <<maxPS, maxStmt, maxSqlLen, wrkThreshold, newCall, goroutines, work, budget>>

\* ------------------------------------------------------------ helpers
\* (a local that the rest of the call no longer reads is reset at once: q is
\* kept only until the insertion, hit only until the compare-and-swap; err
\* tells, until the next step of wrk or Close, that the database Close it has
\* just called returned an error, and in a call that executes through a
\* statement, that the database answers the execution with an error)
IdleCaller == [pc |-> "idle", q |-> "", s |-> 0, ok |-> FALSE, hit |-> 0, ps |-> 0,
               err |-> FALSE]
IdleWrk    == [pc |-> "idle", victim |-> 0, replacement |-> 0, ps |-> 0, drop |-> {},
               todo |-> {}, s |-> 0, h |-> 0, stmts |-> <<>>, err |-> FALSE]
IdleCl     == [pc |-> "idle", todo |-> {}, s |-> 0, ps |-> 0, calls |-> 0, err |-> FALSE]

\* where wrk holds c.l.RLock() from one step to the next: in the loops of
\* getCandidates, updateHits and dropStmts, which read one entry per step
RLocked == {"scan", "cmp", "pol", "pol2", "halve", "hcas", "coll"}

\* c.l.Lock() can be taken: no writer and no reader holds c.l   (the readers of
\* getPS hold it for one step only)
Unlocked == lock = "free" /\ wrk.pc \notin RLocked

\* a new entry that does not count the call that creates it
newStmt_uncounted(q) == [q |-> q, ps |-> 0, psHandles |-> 0, hit |-> 0]

\* &stmt{hit: 1, q: query}
newStmt(q) == [q |-> q, ps |-> 0, psHandles |-> 0, hit |-> 1]

\* s, ok := c.stmt[query]   (0 stands for "not found"; a nil map has no keys)
Lookup(q) ==
    IF \E i \in stmt : ent[i].q = q
    THEN CHOOSE i \in stmt : ent[i].q = q
    ELSE 0

\* s.get(): the statement held by the entry, 0 for none (get and put(nil) are
\* the helpers of autoprepare.go: put(nil) stores the "no statement" value and
\* get reads it back as nil)
get(s) == ent[s].ps

Inc32(x) == (x + 1) % U32
Dec32(x) == (x + U32 - 1) % U32      \* atomic.AddUint32(&x, ^uint32(0))

\* a counter of one bit: the second increment takes it back to 0
Bump_wrap(field) == [stats EXCEPT ![field] = (@ + 1) % 2]

Bump(field) == [stats EXCEPT ![field] = @ + 1]

\* a query of n characters
RECURSIVE Pad(_)
Pad(n) == IF n = 0 THEN "" ELSE "a" \o Pad(n - 1)

\* the queries the application sends: the empty string, one of exactly
\* maxSqlLen characters, and one of maxSqlLen + 1 characters
Queries == {"", Pad(maxSqlLen), Pad(maxSqlLen + 1)}

\* the history of wrk before any cycle has run, and between two cycles; lead
\* tells, while getCandidates compares its two candidates, that victim.hit >=
\* replacement.hit has held at every moment since it loaded victim.hit; failed
\* holds the entries whose Prepare has failed in this or an earlier cycle
NoCycle == [ran |-> FALSE, psCount |-> 0, absent |-> FALSE, Prepared |-> 0,
            Unprepared |-> 0, calls |-> <<>>, hit |-> <<>>, lead |-> FALSE,
            failed |-> {}]

\* New() has returned the cache
Constructed == [opts |-> <<>>, i |-> 1, pc |-> "ok"]

\* the fields of a cache that New() has just allocated, but for the configuration
Fresh ==
    /\ ent = <<>>
    /\ stmt = {}
    /\ stmtNil = FALSE
    /\ lock = "free"
    /\ psCount = 0
    /\ hit = 0
    /\ wrkStatus = 0
    /\ stats = [Hits |-> 0, Misses |-> 0, Skips |-> 0, Prepared |-> 0, Unprepared |-> 0]
    /\ db = <<>>
    /\ caller = [c \in Callers |-> IdleCaller]
    /\ wrk = IdleWrk
    /\ cl = IdleCl
    /\ ncalls = 0
    /\ panicked = "no"
    /\ cycle = NoCycle

\* the cache as New() returns it, with the scaled-down configuration
Init ==
    /\ maxPS = SmallMaxPS
    /\ maxStmt = SmallMaxStmt
    /\ maxSqlLen = SmallMaxSqlLen
    /\ wrkThreshold \in 0..MaxThreshold
    /\ newCall = Constructed
    /\ goroutines = 1..NumCallers
    /\ work = Queries
    /\ budget = MaxCalls
    /\ Fresh

Running == panicked = "no"

\* every field of the cache and every goroutine but the configuration
cache == <<ent, stmt, stmtNil, lock, psCount, hit, wrkStatus, stats, db, caller,
           wrk, cl, ncalls, panicked, cycle>>

\* ------------------------------------------------------------ construction
\* The option constructors: the error the option returns for max ("nil": none).
WithMaxPreparedStmt(max) ==
    IF max > 2 ^ 12 THEN "WithMaxPreparedStmt should be no more than 4096"
    ELSE IF max <= 0 THEN "WithMaxPreparedStmt should be more than 0"
    ELSE "nil"

\* WithMaxStmt that refuses its lower endpoint
WithMaxStmt_exclusive(max) ==
    IF max > 2 ^ 16 THEN "WithMaxStmt should be no more than 65536"
    ELSE IF max <= 128 THEN "WithMaxStmt should be at least 128"
    ELSE "nil"

WithMaxStmt(max) ==
    IF max > 2 ^ 16 THEN "WithMaxStmt should be no more than 65536"
    ELSE IF max < 128 THEN "WithMaxStmt should be at least 128"
    ELSE "nil"

WithMaxQueryLen(max) ==
    IF max > 2 ^ 20 THEN "WithMaxQueryLen should be no more than 1048576"
    ELSE IF max < 32 THEN "WithMaxQueryLen should be at least 32"
    ELSE "nil"

OptNames == {"WithMaxPreparedStmt", "WithMaxStmt", "WithMaxQueryLen"}

\* the values the application passes: both endpoints of every range, their
\* neighbours, and a negative one
OptValues == {-1, 0, 1, 2, 31, 32, 33, 127, 128, 129, 4095, 4096, 4097,
              65535, 65536, 65537, 1048575, 1048576, 1048577}

Opts == [opt : OptNames, max : OptValues]

OptLists == UNION {[1..n -> Opts] : n \in 0..MaxOpts}

\* err := opt(c)
OptErr(o) ==
    CASE o.opt = "WithMaxPreparedStmt" -> WithMaxPreparedStmt(o.max)
      [] o.opt = "WithMaxStmt"         -> WithMaxStmt(o.max)
      [] o.opt = "WithMaxQueryLen"     -> WithMaxQueryLen(o.max)

\* c := &SQLStmtCache{...}: the cache New() allocates, before the options
InitNew ==
    /\ maxPS = DefaultMaxPreparedStmt
    /\ maxSqlLen = DefaultMaxQueryLen
    /\ maxStmt = DefaultMaxStmt
    /\ wrkThreshold = defaultWrkThreshold
    /\ newCall \in [opts : OptLists, i : {1}, pc : {"opts"}]
    /\ goroutines = {}
    /\ work = {}
    /\ budget = 0
    /\ Fresh

\* for _, opt := range opts { if err := opt(c); err != nil { return nil, err } }:
\* one iteration
New_opt ==
    /\ newCall.pc = "opts"
    /\ newCall.i <= Len(newCall.opts)
    /\ LET o == newCall.opts[newCall.i] IN
       IF OptErr(o) # "nil"
       THEN /\ newCall' = [newCall EXCEPT !.pc = "err"]
            /\ UNCHANGED <<maxPS, maxStmt, maxSqlLen>>
       ELSE /\ newCall' = [newCall EXCEPT !.i = @ + 1]
            /\ maxPS' = IF o.opt = "WithMaxPreparedStmt" THEN o.max ELSE maxPS
            /\ maxStmt' = IF o.opt = "WithMaxStmt" THEN o.max ELSE maxStmt
            /\ maxSqlLen' = IF o.opt = "WithMaxQueryLen" THEN o.max ELSE maxSqlLen
    /\ UNCHANGED <<wrkThreshold, goroutines, work, budget, cache>>

\* runtime.SetFinalizer(...); return c, nil
New_return ==
    /\ newCall.pc = "opts"
    /\ newCall.i > Len(newCall.opts)
    /\ newCall' = [newCall EXCEPT !.pc = "ok"]
    /\ UNCHANGED <<maxPS, maxStmt, maxSqlLen, wrkThreshold, goroutines, work, budget, cache>>

New == New_opt \/ New_return

SpecNew == InitNew /\ [][New]_vars

\* ------------------------------------------------------------ dispatcher
\* where getPS goes on after the tick: to "if !ok" or to the hit increment
AfterTick(c) == IF caller[c].ok THEN "inc" ELSE "ins"

\* getPS that does not count the query it skips
getPS_noSkipCount(c, q) ==
    /\ Running
    /\ caller[c].pc = "idle"
    /\ ncalls < budget
    /\ ncalls' = ncalls + 1
    /\ IF maxPS = 0
       THEN /\ stats' = Bump("Misses")
            /\ UNCHANGED caller
       ELSE IF Len(q) > maxSqlLen
       THEN /\ stats' = [stats EXCEPT !.Misses = @ + 1]
            /\ UNCHANGED caller
       ELSE /\ lock = "free"
            /\ caller' = [caller EXCEPT ![c] =
                    [@ EXCEPT !.pc = "tick", !.s = Lookup(q), !.ok = Lookup(q) # 0,
                              !.q = IF Lookup(q) # 0 THEN "" ELSE q]]
            /\ UNCHANGED stats
    /\ UNCHANGED <<ent, stmt, stmtNil, lock, psCount, hit, wrkStatus, db, wrk, cl, panicked>>
    /\ UNCHANGED <<cfg, cycle>>

\* getPS with the length limit exclusive
getPS_exclusive(c, q) ==
    /\ Running
    /\ caller[c].pc = "idle"
    /\ ncalls < budget
    /\ ncalls' = ncalls + 1
    /\ IF maxPS = 0
       THEN /\ stats' = Bump("Misses")
            /\ UNCHANGED caller
       ELSE IF Len(q) >= maxSqlLen
       THEN /\ stats' = [stats EXCEPT !.Skips = @ + 1, !.Misses = @ + 1]
            /\ UNCHANGED caller
       ELSE /\ lock = "free"
            /\ caller' = [caller EXCEPT ![c] =
                    [@ EXCEPT !.pc = "tick", !.s = Lookup(q), !.ok = Lookup(q) # 0,
                              !.q = IF Lookup(q) # 0 THEN "" ELSE q]]
            /\ UNCHANGED stats
    /\ UNCHANGED <<ent, stmt, stmtNil, lock, psCount, hit, wrkStatus, db, wrk, cl, panicked>>
    /\ UNCHANGED <<cfg, cycle>>

\* A dispatcher call enters getPS: the maxPS and length checks and the lookup
\* under RLock.  A nil result of getPS makes acquire return nil, and the
\* dispatcher counts a miss and runs the query ad hoc.
getPS(c, q) ==
    /\ Running
    /\ caller[c].pc = "idle"
    /\ ncalls < budget
    /\ ncalls' = ncalls + 1
    /\ IF maxPS = 0
       THEN /\ stats' = Bump("Misses")
            /\ UNCHANGED caller
       ELSE IF Len(q) > maxSqlLen
       THEN /\ stats' = [stats EXCEPT !.Skips = @ + 1, !.Misses = @ + 1]
            /\ UNCHANGED caller
       ELSE /\ lock = "free"
            /\ caller' = [caller EXCEPT ![c] =
                    [@ EXCEPT !.pc = "tick", !.s = Lookup(q), !.ok = Lookup(q) # 0,
                              !.q = IF Lookup(q) # 0 THEN "" ELSE q]]
            /\ UNCHANGED stats
    /\ UNCHANGED <<ent, stmt, stmtNil, lock, psCount, hit, wrkStatus, db, wrk, cl, panicked>>
    /\ UNCHANGED <<cfg, cycle>>

\* the tick with the test hit >= c.wrkThreshold
getPS_tick_early(c) ==
    /\ Running
    /\ caller[c].pc = "tick"
    /\ hit' = Inc32(hit)
    /\ caller' = [caller EXCEPT ![c] =
            IF hit' >= wrkThreshold
            THEN [@ EXCEPT !.pc = "cas", !.hit = hit']
            ELSE [@ EXCEPT !.pc = AfterTick(c)]]
    /\ UNCHANGED <<ent, stmt, stmtNil, lock, psCount, wrkStatus, stats, db, wrk, cl,
                   ncalls, panicked>>
    /\ UNCHANGED <<cfg, cycle>>

\* hit := atomic.AddUint32(&c.hit, 1)
getPS_tick(c) ==
    /\ Running
    /\ caller[c].pc = "tick"
    /\ hit' = Inc32(hit)
    /\ caller' = [caller EXCEPT ![c] =
            IF hit' > wrkThreshold
            THEN [@ EXCEPT !.pc = "cas", !.hit = hit']
            ELSE [@ EXCEPT !.pc = AfterTick(c)]]
    /\ UNCHANGED <<ent, stmt, stmtNil, lock, psCount, wrkStatus, stats, db, wrk, cl,
                   ncalls, panicked>>
    /\ UNCHANGED <<cfg, cycle>>

\* the test of the counter that leaves it as it is
getPS_cas_keep(c) ==
    /\ Running
    /\ caller[c].pc = "cas"
    /\ hit' = hit
    /\ IF hit = caller[c].hit
       THEN caller' = [caller EXCEPT ![c] = [@ EXCEPT !.pc = "spawn", !.hit = 0]]
       ELSE caller' = [caller EXCEPT ![c] = [@ EXCEPT !.pc = AfterTick(c), !.hit = 0]]
    /\ UNCHANGED <<ent, stmt, stmtNil, lock, psCount, wrkStatus, stats, db, wrk, cl,
                   ncalls, panicked>>
    /\ UNCHANGED <<cfg, cycle>>

\* atomic.CompareAndSwapUint32(&c.hit, hit, 0)
getPS_cas(c) ==
    /\ Running
    /\ caller[c].pc = "cas"
    /\ IF hit = caller[c].hit
       THEN /\ hit' = 0
            /\ caller' = [caller EXCEPT ![c] = [@ EXCEPT !.pc = "spawn", !.hit = 0]]
       ELSE /\ hit' = hit
            /\ caller' = [caller EXCEPT ![c] =
                    [@ EXCEPT !.pc = AfterTick(c), !.hit = 0]]
    /\ UNCHANGED <<ent, stmt, stmtNil, lock, psCount, wrkStatus, stats, db, wrk, cl,
                   ncalls, panicked>>
    /\ UNCHANGED <<cfg, cycle>>

\* the launch without the compare-and-swap on wrkStatus
getPS_spawn_noCAS(c) ==
    /\ Running
    /\ caller[c].pc = "spawn"
    /\ wrkStatus' = 1
    /\ wrk' = [IdleWrk EXCEPT !.pc = "cand"]
    /\ caller' = [caller EXCEPT ![c] = [@ EXCEPT !.pc = AfterTick(c)]]
    /\ UNCHANGED <<ent, stmt, stmtNil, lock, psCount, hit, stats, db, cl, ncalls, panicked>>
    /\ UNCHANGED <<cfg, cycle>>

\* if atomic.CompareAndSwapUint32(&c.wrkStatus, 0, 1) { go func() { ... c.wrk() }() }
getPS_spawn(c) ==
    /\ Running
    /\ caller[c].pc = "spawn"
    /\ IF wrkStatus = 0
       THEN /\ wrkStatus' = 1
            /\ wrk' = [IdleWrk EXCEPT !.pc = "cand"]
       ELSE UNCHANGED <<wrkStatus, wrk>>
    /\ caller' = [caller EXCEPT ![c] = [@ EXCEPT !.pc = AfterTick(c)]]
    /\ UNCHANGED <<ent, stmt, stmtNil, lock, psCount, hit, stats, db, cl, ncalls, panicked>>
    /\ UNCHANGED <<cfg, cycle>>

\* the insertion without the test len(c.stmt) < c.maxStmt
getPS_insert_noLimit(c) ==
    /\ Running
    /\ caller[c].pc = "ins"
    /\ Unlocked
    /\ IF Lookup(caller[c].q) # 0
       THEN /\ caller' = [caller EXCEPT ![c] =
                   [@ EXCEPT !.pc = "inc", !.s = Lookup(caller[c].q), !.ok = TRUE,
                             !.q = ""]]
            /\ UNCHANGED <<ent, stmt, stats, panicked>>
       ELSE IF stmtNil
       THEN /\ panicked' = "assignment to entry in nil map"
            /\ UNCHANGED <<ent, stmt, stats, caller>>
       ELSE /\ ent' = Append(ent, newStmt(caller[c].q))
            /\ stmt' = stmt \cup {Len(ent) + 1}
            /\ stats' = Bump("Misses")
            /\ caller' = [caller EXCEPT ![c] = IdleCaller]
            /\ UNCHANGED panicked
    /\ UNCHANGED <<stmtNil, lock, psCount, hit, wrkStatus, db, wrk, cl, ncalls>>
    /\ UNCHANGED <<cfg, cycle>>

\* the insertion with the test len(c.stmt) <= c.maxStmt
getPS_insert_offByOne(c) ==
    /\ Running
    /\ caller[c].pc = "ins"
    /\ Unlocked
    /\ IF Cardinality(stmt) <= maxStmt
       THEN IF Lookup(caller[c].q) # 0
            THEN /\ caller' = [caller EXCEPT ![c] =
                        [@ EXCEPT !.pc = "inc", !.s = Lookup(caller[c].q), !.ok = TRUE,
                                  !.q = ""]]
                 /\ UNCHANGED <<ent, stmt, stats, panicked>>
            ELSE IF stmtNil
            THEN /\ panicked' = "assignment to entry in nil map"
                 /\ UNCHANGED <<ent, stmt, stats, caller>>
            ELSE /\ ent' = Append(ent, newStmt(caller[c].q))
                 /\ stmt' = stmt \cup {Len(ent) + 1}
                 /\ stats' = Bump("Misses")
                 /\ caller' = [caller EXCEPT ![c] = IdleCaller]
                 /\ UNCHANGED panicked
       ELSE /\ stats' = Bump("Misses")
            /\ caller' = [caller EXCEPT ![c] = IdleCaller]
            /\ UNCHANGED <<ent, stmt, panicked>>
    /\ UNCHANGED <<stmtNil, lock, psCount, hit, wrkStatus, db, wrk, cl, ncalls>>
    /\ UNCHANGED <<cfg, cycle>>

\* the insertion that stores a new entry under a key that is already there
getPS_insert_overwrite(c) ==
    /\ Running
    /\ caller[c].pc = "ins"
    /\ Unlocked
    /\ IF Cardinality(stmt) < maxStmt
       THEN IF stmtNil
            THEN /\ panicked' = "assignment to entry in nil map"
                 /\ UNCHANGED <<ent, stmt, stats, caller>>
            ELSE IF Lookup(caller[c].q) # 0
            THEN /\ ent' = [ent EXCEPT ![Lookup(caller[c].q)] = newStmt(caller[c].q)]
                 /\ stats' = Bump("Misses")
                 /\ caller' = [caller EXCEPT ![c] = IdleCaller]
                 /\ UNCHANGED <<stmt, panicked>>
            ELSE /\ ent' = Append(ent, newStmt(caller[c].q))
                 /\ stmt' = stmt \cup {Len(ent) + 1}
                 /\ stats' = Bump("Misses")
                 /\ caller' = [caller EXCEPT ![c] = IdleCaller]
                 /\ UNCHANGED panicked
       ELSE /\ stats' = Bump("Misses")
            /\ caller' = [caller EXCEPT ![c] = IdleCaller]
            /\ UNCHANGED <<ent, stmt, panicked>>
    /\ UNCHANGED <<stmtNil, lock, psCount, hit, wrkStatus, db, wrk, cl, ncalls>>
    /\ UNCHANGED <<cfg, cycle>>

\* if !ok { c.l.Lock(); if len(c.stmt) < c.maxStmt { if s, ok = c.stmt[query]; !ok
\*   { c.stmt[query] = &stmt{hit: 1, q: query} } }; c.l.Unlock(); if !ok { return nil } }
\* An assignment to an entry of a nil map panics.
getPS_insert(c) ==
    /\ Running
    /\ caller[c].pc = "ins"
    /\ Unlocked
    /\ IF Cardinality(stmt) < maxStmt
       THEN IF Lookup(caller[c].q) # 0
            THEN /\ caller' = [caller EXCEPT ![c] =
                        [@ EXCEPT !.pc = "inc", !.s = Lookup(caller[c].q), !.ok = TRUE,
                                  !.q = ""]]
                 /\ UNCHANGED <<ent, stmt, stats, panicked>>
            ELSE IF stmtNil
            THEN /\ panicked' = "assignment to entry in nil map"
                 /\ UNCHANGED <<ent, stmt, stats, caller>>
            ELSE /\ ent' = Append(ent, newStmt(caller[c].q))
                 /\ stmt' = stmt \cup {Len(ent) + 1}
                 /\ stats' = Bump("Misses")
                 /\ caller' = [caller EXCEPT ![c] = IdleCaller]
                 /\ UNCHANGED panicked
       ELSE /\ stats' = Bump("Misses")
            /\ caller' = [caller EXCEPT ![c] = IdleCaller]
            /\ UNCHANGED <<ent, stmt, panicked>>
    /\ UNCHANGED <<stmtNil, lock, psCount, hit, wrkStatus, db, wrk, cl, ncalls>>
    /\ UNCHANGED <<cfg, cycle>>

\* atomic.AddUint32(&s.hit, 1); return s
getPS_inc(c) ==
    /\ Running
    /\ caller[c].pc = "inc"
    /\ ent' = [ent EXCEPT ![caller[c].s].hit = Inc32(@)]
    /\ caller' = [caller EXCEPT ![c] = [@ EXCEPT !.pc = "acq"]]
    /\ cycle' = [cycle EXCEPT !.lead = @ /\ (wrk.pc = "pol2" =>
                     ent'[wrk.victim].hit >= ent'[wrk.replacement].hit)]
    /\ UNCHANGED <<stmt, stmtNil, lock, psCount, hit, wrkStatus, stats, db, wrk, cl,
                   ncalls, panicked>>
    /\ UNCHANGED cfg

\* acquire that hands out the statement without registering the handle
acquire_noHandle(c) ==
    /\ Running
    /\ caller[c].pc = "acq"
    /\ LET s == caller[c].s IN
       IF ent[s].ps # 0
       THEN /\ \E e \in BOOLEAN : caller' = [caller EXCEPT ![c] =
                    [@ EXCEPT !.pc = "exec", !.ps = ent[s].ps, !.err = e]]
            /\ stats' = Bump("Hits")
            /\ db' = [db EXCEPT ![ent[s].ps].execs = @ + 1]
            /\ UNCHANGED ent
       ELSE /\ caller' = [caller EXCEPT ![c] = IdleCaller]
            /\ stats' = Bump("Misses")
            /\ UNCHANGED <<ent, db>>
    /\ UNCHANGED <<stmt, stmtNil, lock, psCount, hit, wrkStatus, wrk, cl, ncalls, panicked>>
    /\ UNCHANGED <<cfg, cycle>>

\* acquire that registers the handle before it looks at s.ps and does not take
\* it back when there is no statement
acquire_noRollback(c) ==
    /\ Running
    /\ caller[c].pc = "acq"
    /\ LET s == caller[c].s IN
       /\ ent' = [ent EXCEPT ![s].psHandles = Inc32(@)]
       /\ IF ent[s].ps # 0
          THEN /\ \E e \in BOOLEAN : caller' = [caller EXCEPT ![c] =
                    [@ EXCEPT !.pc = "exec", !.ps = ent[s].ps, !.err = e]]
               /\ stats' = Bump("Hits")
               /\ db' = [db EXCEPT ![ent[s].ps].execs = @ + 1]
          ELSE /\ caller' = [caller EXCEPT ![c] = IdleCaller]
               /\ stats' = Bump("Misses")
               /\ UNCHANGED db
    /\ UNCHANGED <<stmt, stmtNil, lock, psCount, hit, wrkStatus, wrk, cl, ncalls, panicked>>
    /\ UNCHANGED <<cfg, cycle>>

\* ps := s.acquire(): under s.lock, a handle is registered only when s.ps != nil.
\* With a handle the dispatcher counts a hit and executes through ps, which the
\* database answers with a result or an error; without one it counts a miss
\* and runs the query ad hoc.
acquire(c) ==
    /\ Running
    /\ caller[c].pc = "acq"
    /\ LET s == caller[c].s IN
       IF ent[s].ps # 0
       THEN /\ ent' = [ent EXCEPT ![s].psHandles = Inc32(@)]
            /\ \E e \in BOOLEAN : caller' = [caller EXCEPT ![c] =
                    [@ EXCEPT !.pc = "exec", !.ps = ent[s].ps, !.err = e]]
            /\ stats' = Bump("Hits")
            /\ db' = [db EXCEPT ![ent[s].ps].execs = @ + 1]
       ELSE /\ caller' = [caller EXCEPT ![c] = IdleCaller]
            /\ stats' = Bump("Misses")
            /\ UNCHANGED <<ent, db>>
    /\ UNCHANGED <<stmt, stmtNil, lock, psCount, hit, wrkStatus, wrk, cl, ncalls, panicked>>
    /\ UNCHANGED <<cfg, cycle>>

\* a release that takes c.l before it gives the handle back
release_underLock(c) ==
    /\ Running
    /\ caller[c].pc = "exec"
    /\ Unlocked
    /\ ent' = [ent EXCEPT ![caller[c].s].psHandles = Dec32(@)]
    /\ caller' = [caller EXCEPT ![c] = IdleCaller]
    /\ UNCHANGED <<stmt, stmtNil, lock, psCount, hit, wrkStatus, stats, db, wrk, cl,
                   ncalls, panicked>>
    /\ UNCHANGED <<cfg, cycle>>

\* a release that is left out when the execution has returned an error
release_unlessErr(c) ==
    /\ Running
    /\ caller[c].pc = "exec"
    /\ ent' = IF caller[c].err THEN ent
              ELSE [ent EXCEPT ![caller[c].s].psHandles = Dec32(@)]
    /\ caller' = [caller EXCEPT ![c] = IdleCaller]
    /\ UNCHANGED <<stmt, stmtNil, lock, psCount, hit, wrkStatus, stats, db, wrk, cl,
                   ncalls, panicked>>
    /\ UNCHANGED <<cfg, cycle>>

\* defer s.release(): the execution through ps has returned, with a result or
\* an error
release(c) ==
    /\ Running
    /\ caller[c].pc = "exec"
    /\ ent' = [ent EXCEPT ![caller[c].s].psHandles = Dec32(@)]
    /\ caller' = [caller EXCEPT ![c] = IdleCaller]
    /\ UNCHANGED <<stmt, stmtNil, lock, psCount, hit, wrkStatus, stats, db, wrk, cl,
                   ncalls, panicked>>
    /\ UNCHANGED <<cfg, cycle>>

Dispatch(c) ==
    \/ \E q \in work : c \in goroutines /\ getPS(c, q)
    \/ getPS_tick(c)
    \/ getPS_cas(c)
    \/ getPS_spawn(c)
    \/ getPS_insert(c)
    \/ getPS_inc(c)
    \/ acquire(c)
    \/ release(c)

\* ------------------------------------------------------------ worker
Prepared == {i \in stmt : get(i) # 0}
Absent   == {i \in stmt : get(i) = 0}

\* victim, replacement := c.getCandidates(): c.l.RLock() and the start of the
\* range over c.stmt
wrk_getCandidates ==
    /\ Running
    /\ wrk.pc = "cand"
    /\ lock = "free"
    /\ wrk' = [wrk EXCEPT !.pc = "scan", !.todo = stmt]
    /\ cycle' = [ran |-> TRUE, psCount |-> psCount, absent |-> Absent # {},
                 Prepared |-> stats.Prepared, Unprepared |-> stats.Unprepared,
                 calls |-> <<>>, hit |-> [i \in stmt |-> ent[i].hit], lead |-> FALSE,
                 failed |-> cycle.failed]
    /\ UNCHANGED <<ent, stmt, stmtNil, lock, psCount, hit, wrkStatus, stats, db,
                   caller, cl, ncalls, panicked>>
    /\ UNCHANGED cfg

\* One iteration of "for _, s := range c.stmt", in any order: s.get(), the test
\* victim == nil (replacement == nil), and the load of victim.hit
\* (replacement.hit), the left operand of the comparison.
wrk_scan ==
    /\ Running
    /\ wrk.pc = "scan"
    /\ IF wrk.todo = {}
       THEN wrk' = [wrk EXCEPT !.pc = "pol"]
       ELSE \E s \in wrk.todo :
              LET mine == IF get(s) # 0 THEN wrk.victim ELSE wrk.replacement IN
              IF mine = 0
              THEN wrk' = [wrk EXCEPT !.todo = @ \ {s},
                                      !.victim = IF get(s) # 0 THEN s ELSE @,
                                      !.replacement = IF get(s) # 0 THEN @ ELSE s]
              ELSE wrk' = [wrk EXCEPT !.todo = @ \ {s}, !.pc = "cmp", !.s = s,
                                      !.h = ent[mine].hit]
    /\ UNCHANGED <<ent, stmt, stmtNil, lock, psCount, hit, wrkStatus, stats, db,
                   caller, cl, ncalls, panicked>>
    /\ UNCHANGED <<cfg, cycle>>

\* the load of s.hit, the right operand, and the comparison:
\* if victim.hit > s.hit { victim = s }, if replacement.hit < s.hit { replacement = s }
wrk_scanCompare ==
    /\ Running
    /\ wrk.pc = "cmp"
    /\ wrk' = [wrk EXCEPT !.pc = "scan", !.s = 0, !.h = 0,
                 !.victim = IF get(wrk.s) # 0 /\ wrk.h > ent[wrk.s].hit THEN wrk.s ELSE @,
                 !.replacement = IF get(wrk.s) = 0 /\ wrk.h < ent[wrk.s].hit THEN wrk.s ELSE @]
    /\ UNCHANGED <<ent, stmt, stmtNil, lock, psCount, hit, wrkStatus, stats, db,
                   caller, cl, ncalls, panicked>>
    /\ UNCHANGED <<cfg, cycle>>

\* the policy that returns a victim without replacement whatever its hit
wrk_policy_anyHit ==
    /\ Running
    /\ wrk.pc = "pol"
    /\ IF wrk.victim # 0 /\ wrk.replacement = 0
       THEN wrk' = [wrk EXCEPT !.pc = "vchk"]
       ELSE IF wrk.victim # 0 /\ wrk.replacement # 0
       THEN wrk' = [wrk EXCEPT !.pc = "pol2", !.h = ent[wrk.victim].hit]
       ELSE wrk' = [wrk EXCEPT !.pc = "vchk"]
    /\ cycle' = [cycle EXCEPT !.hit = <<>>,
                               !.lead = /\ wrk.victim # 0 /\ wrk.replacement # 0
                                        /\ ent[wrk.victim].hit >= ent[wrk.replacement].hit]
    /\ UNCHANGED <<ent, stmt, stmtNil, lock, psCount, hit, wrkStatus, stats, db,
                   caller, cl, ncalls, panicked>>
    /\ UNCHANGED cfg

\* After the range: with a victim and no replacement, return (nil, nil) if
\* victim.hit > 0; with both, load victim.hit, the left operand of
\* victim.hit >= replacement.hit; otherwise return what the range found.
wrk_policy ==
    /\ Running
    /\ wrk.pc = "pol"
    /\ IF wrk.victim # 0 /\ wrk.replacement = 0
       THEN wrk' = [wrk EXCEPT !.pc = "vchk",
                               !.victim = IF ent[wrk.victim].hit > 0 THEN 0 ELSE @]
       ELSE IF wrk.victim # 0 /\ wrk.replacement # 0
       THEN wrk' = [wrk EXCEPT !.pc = "pol2", !.h = ent[wrk.victim].hit]
       ELSE wrk' = [wrk EXCEPT !.pc = "vchk"]
    /\ cycle' = [cycle EXCEPT !.hit = <<>>,
                               !.lead = /\ wrk.victim # 0 /\ wrk.replacement # 0
                                        /\ ent[wrk.victim].hit >= ent[wrk.replacement].hit]
    /\ UNCHANGED <<ent, stmt, stmtNil, lock, psCount, hit, wrkStatus, stats, db,
                   caller, cl, ncalls, panicked>>
    /\ UNCHANGED cfg

\* the load of replacement.hit and the comparison:
\* if victim.hit >= replacement.hit { return nil, nil }; return   (RUnlock)
wrk_policyCompare ==
    /\ Running
    /\ wrk.pc = "pol2"
    /\ IF wrk.h >= ent[wrk.replacement].hit
       THEN wrk' = [wrk EXCEPT !.pc = "vchk", !.h = 0, !.victim = 0, !.replacement = 0]
       ELSE wrk' = [wrk EXCEPT !.pc = "vchk", !.h = 0]
    /\ cycle' = [cycle EXCEPT !.lead = FALSE]
    /\ UNCHANGED <<ent, stmt, stmtNil, lock, psCount, hit, wrkStatus, stats, db,
                   caller, cl, ncalls, panicked>>
    /\ UNCHANGED cfg

\* if victim != nil && atomic.LoadUint32(&c.psCount) >= c.maxPS
wrk_victimCheck ==
    /\ Running
    /\ wrk.pc = "vchk"
    /\ wrk' = [wrk EXCEPT !.pc =
                 IF wrk.victim # 0 /\ psCount >= maxPS THEN "vget" ELSE "rchk"]
    /\ UNCHANGED <<ent, stmt, stmtNil, lock, psCount, hit, wrkStatus, stats, db,
                   caller, cl, ncalls, panicked>>
    /\ UNCHANGED <<cfg, cycle>>

\* ps := victim.get()
wrk_victimGet ==
    /\ Running
    /\ wrk.pc = "vget"
    /\ wrk' = [wrk EXCEPT !.pc = "vput", !.ps = get(wrk.victim)]
    /\ UNCHANGED <<ent, stmt, stmtNil, lock, psCount, hit, wrkStatus, stats, db,
                   caller, cl, ncalls, panicked>>
    /\ UNCHANGED <<cfg, cycle>>

\* put(nil) that stores nothing
clear_noop(s) == ent

\* s.put(nil): the entry no longer holds a statement
clear(s) == [ent EXCEPT ![s].ps = 0]

\* s.wait() returns once no handle is outstanding (stmt.go has no wait; this is
\* the waitQuiesced of the design: "blocks until handles == 0")
quiesced(s) == ent[s].psHandles = 0

\* victim.put(nil)
wrk_victimPutNil ==
    /\ Running
    /\ wrk.pc = "vput"
    /\ ent' = clear(wrk.victim)
    /\ wrk' = [wrk EXCEPT !.pc = "vwait"]
    /\ UNCHANGED <<stmt, stmtNil, lock, psCount, hit, wrkStatus, stats, db,
                   caller, cl, ncalls, panicked>>
    /\ UNCHANGED <<cfg, cycle>>

\* victim.wait()
wrk_victimWait ==
    /\ Running
    /\ wrk.pc = "vwait"
    /\ quiesced(wrk.victim)
    /\ wrk' = [wrk EXCEPT !.pc = "vdec"]
    /\ UNCHANGED <<ent, stmt, stmtNil, lock, psCount, hit, wrkStatus, stats, db,
                   caller, cl, ncalls, panicked>>
    /\ UNCHANGED <<cfg, cycle>>

\* the eviction without the decrement of psCount
wrk_victimCount_noDec ==
    /\ Running
    /\ wrk.pc = "vdec"
    /\ psCount' = psCount
    /\ stats' = Bump("Unprepared")
    /\ wrk' = [wrk EXCEPT !.pc = "vclose"]
    /\ UNCHANGED <<ent, stmt, stmtNil, lock, hit, wrkStatus, db,
                   caller, cl, ncalls, panicked>>
    /\ UNCHANGED <<cfg, cycle>>

\* atomic.AddUint32(&c.psCount, ^uint32(0)); atomic.AddUint64(&c.stats.Unprepared, 1)
wrk_victimCount ==
    /\ Running
    /\ wrk.pc = "vdec"
    /\ psCount' = Dec32(psCount)
    /\ stats' = Bump("Unprepared")
    /\ wrk' = [wrk EXCEPT !.pc = "vclose"]
    /\ UNCHANGED <<ent, stmt, stmtNil, lock, hit, wrkStatus, db,
                   caller, cl, ncalls, panicked>>
    /\ UNCHANGED <<cfg, cycle>>

\* a cycle that ends when the database Close returns an error
wrk_victimClose_fatal ==
    /\ Running
    /\ wrk.pc = "vclose"
    /\ IF wrk.ps = 0
       THEN /\ panicked' = "nil pointer dereference"
            /\ wrkStatus' = 0
            /\ UNCHANGED <<db, wrk, cycle>>
       ELSE /\ db' = [db EXCEPT ![wrk.ps].closes = @ + 1]
            /\ \E e \in BOOLEAN :
                  wrk' = [wrk EXCEPT !.pc = IF e THEN "exit" ELSE "rchk", !.ps = 0, !.err = e]
            /\ cycle' = [cycle EXCEPT !.calls = Append(@, "Close")]
            /\ UNCHANGED <<panicked, wrkStatus>>
    /\ UNCHANGED <<ent, stmt, stmtNil, lock, psCount, hit, stats,
                   caller, cl, ncalls>>
    /\ UNCHANGED cfg

\* ps.Close() on the database, which returns nil or an error that wrk drops;
\* (*sql.Stmt)(nil).Close() dereferences nil.  The deferred store of wrkStatus
\* runs while the panic unwinds.
wrk_victimClose ==
    /\ Running
    /\ wrk.pc = "vclose"
    /\ IF wrk.ps = 0
       THEN /\ panicked' = "nil pointer dereference"
            /\ wrkStatus' = 0
            /\ UNCHANGED <<db, wrk, cycle>>
       ELSE /\ db' = [db EXCEPT ![wrk.ps].closes = @ + 1]
            /\ \E e \in BOOLEAN : wrk' = [wrk EXCEPT !.pc = "rchk", !.ps = 0, !.err = e]
            /\ cycle' = [cycle EXCEPT !.calls = Append(@, "Close")]
            /\ UNCHANGED <<panicked, wrkStatus>>
    /\ UNCHANGED <<ent, stmt, stmtNil, lock, psCount, hit, stats,
                   caller, cl, ncalls>>
    /\ UNCHANGED cfg

\* if replacement != nil && c.psCount < c.maxPS
wrk_replacementCheck ==
    /\ Running
    /\ wrk.pc = "rchk"
    /\ wrk' = [wrk EXCEPT !.err = FALSE, !.pc =
                 IF wrk.replacement # 0 /\ psCount < maxPS THEN "prep" ELSE "decay"]
    /\ UNCHANGED <<ent, stmt, stmtNil, lock, psCount, hit, wrkStatus, stats, db,
                   caller, cl, ncalls, panicked>>
    /\ UNCHANGED <<cfg, cycle>>

\* ps, err := c.c.PrepareContext(ctx, replacement.q), the database returning a
\* new statement
wrk_prepareOk ==
    /\ Running
    /\ wrk.pc = "prep"
    /\ db' = Append(db, [closes |-> 0, execs |-> 0])
    /\ wrk' = [wrk EXCEPT !.pc = "rput", !.ps = Len(db) + 1]
    /\ cycle' = [cycle EXCEPT !.calls = Append(@, "Prepare")]
    /\ UNCHANGED <<ent, stmt, stmtNil, lock, psCount, hit, wrkStatus, stats,
                   caller, cl, ncalls, panicked>>
    /\ UNCHANGED cfg

\* a failed Prepare that ends the cycle at once
wrk_prepareErr_return ==
    /\ Running
    /\ wrk.pc = "prep"
    /\ wrk' = [wrk EXCEPT !.pc = "exit"]
    /\ cycle' = [cycle EXCEPT !.calls = Append(@, "Prepare failed"),
                               !.failed = @ \cup {wrk.replacement}]
    /\ UNCHANGED <<ent, stmt, stmtNil, lock, psCount, hit, wrkStatus, stats, db,
                   caller, cl, ncalls, panicked>>
    /\ UNCHANGED cfg

\* ps, err := c.c.PrepareContext(ctx, replacement.q), the database returning an
\* error (or the 3 s timeout of the context expiring)
wrk_prepareErr ==
    /\ Running
    /\ wrk.pc = "prep"
    /\ wrk' = [wrk EXCEPT !.pc = "decay"]
    /\ cycle' = [cycle EXCEPT !.calls = Append(@, "Prepare failed"),
                               !.failed = @ \cup {wrk.replacement}]
    /\ UNCHANGED <<ent, stmt, stmtNil, lock, psCount, hit, wrkStatus, stats, db,
                   caller, cl, ncalls, panicked>>
    /\ UNCHANGED cfg

wrk_prepare == wrk_prepareOk \/ wrk_prepareErr

\* s.put(v)
put(s, v) == [ent EXCEPT ![s].ps = v]

\* a put into any tracked entry, whatever it holds
wrk_replacementPut_anySlot ==
    /\ Running
    /\ wrk.pc = "rput"
    /\ \E i \in stmt \cup {wrk.replacement} : ent' = put(i, wrk.ps)
    /\ wrk' = [wrk EXCEPT !.pc = "rinc", !.ps = 0]
    /\ UNCHANGED <<stmt, stmtNil, lock, psCount, hit, wrkStatus, stats, db,
                   caller, cl, ncalls, panicked>>
    /\ UNCHANGED <<cfg, cycle>>

\* replacement.put(ps)
wrk_replacementPut ==
    /\ Running
    /\ wrk.pc = "rput"
    /\ ent' = put(wrk.replacement, wrk.ps)
    /\ wrk' = [wrk EXCEPT !.pc = "rinc", !.ps = 0]
    /\ UNCHANGED <<stmt, stmtNil, lock, psCount, hit, wrkStatus, stats, db,
                   caller, cl, ncalls, panicked>>
    /\ UNCHANGED <<cfg, cycle>>

\* atomic.AddUint32(&c.psCount, 1); atomic.AddUint64(&c.stats.Prepared, 1)
wrk_replacementCount ==
    /\ Running
    /\ wrk.pc = "rinc"
    /\ psCount' = Inc32(psCount)
    /\ stats' = Bump("Prepared")
    /\ wrk' = [wrk EXCEPT !.pc = "decay"]
    /\ UNCHANGED <<ent, stmt, stmtNil, lock, hit, wrkStatus, db,
                   caller, cl, ncalls, panicked>>
    /\ UNCHANGED <<cfg, cycle>>

\* c.updateHits(): c.l.RLock() and the start of the range over c.stmt
updateHits ==
    /\ Running
    /\ wrk.pc = "decay"
    /\ lock = "free"
    /\ wrk' = [wrk EXCEPT !.pc = "halve", !.todo = stmt]
    /\ UNCHANGED <<ent, stmt, stmtNil, lock, psCount, hit, wrkStatus, stats, db,
                   caller, cl, ncalls, panicked>>
    /\ UNCHANGED <<cfg, cycle>>

\* hit = atomic.LoadUint32(&s.hit), for the next entry of the range or, after a
\* failed compare-and-swap, for the same entry again; the range over, RUnlock
updateHits_load ==
    /\ Running
    /\ wrk.pc = "halve"
    /\ IF wrk.s # 0
       THEN wrk' = [wrk EXCEPT !.pc = "hcas", !.h = ent[wrk.s].hit]
       ELSE IF wrk.todo = {}
       THEN wrk' = [wrk EXCEPT !.pc = "drop"]
       ELSE \E s \in wrk.todo :
              wrk' = [wrk EXCEPT !.pc = "hcas", !.todo = @ \ {s}, !.s = s,
                                 !.h = ent[s].hit]
    /\ UNCHANGED <<ent, stmt, stmtNil, lock, psCount, hit, wrkStatus, stats, db,
                   caller, cl, ncalls, panicked>>
    /\ UNCHANGED <<cfg, cycle>>

\* the halving by a plain store of hit/2
updateHits_store ==
    /\ Running
    /\ wrk.pc = "hcas"
    /\ ent' = [ent EXCEPT ![wrk.s].hit = wrk.h \div 2]
    /\ wrk' = [wrk EXCEPT !.pc = "halve", !.s = 0, !.h = 0]
    /\ UNCHANGED <<stmt, stmtNil, lock, psCount, hit, wrkStatus, stats, db,
                   caller, cl, ncalls, panicked>>
    /\ UNCHANGED <<cfg, cycle>>

\* if atomic.CompareAndSwapUint32(&s.hit, hit, hit/2) { break }
updateHits_cas ==
    /\ Running
    /\ wrk.pc = "hcas"
    /\ IF ent[wrk.s].hit = wrk.h
       THEN /\ ent' = [ent EXCEPT ![wrk.s].hit = wrk.h \div 2]
            /\ wrk' = [wrk EXCEPT !.pc = "halve", !.s = 0, !.h = 0]
       ELSE /\ ent' = ent
            /\ wrk' = [wrk EXCEPT !.pc = "halve", !.h = 0]
    /\ UNCHANGED <<stmt, stmtNil, lock, psCount, hit, wrkStatus, stats, db,
                   caller, cl, ncalls, panicked>>
    /\ UNCHANGED <<cfg, cycle>>

\* All the orders sort.Slice can leave u in: ascending by hit, ties in any order.
RECURSIVE SortedBy(_, _)
SortedBy(u, I) ==
    IF I = {} THEN {<<>>}
    ELSE UNION { { <<u[i]>> \o t : t \in SortedBy(u, I \ {i}) } :
                 i \in {j \in I : \A k \in I : u[j].hit <= u[k].hit} }

\* the loop "we want to delete also all statements that have 0 hits"
RECURSIVE ZeroRun(_, _)
ZeroRun(sorted, victims) ==
    IF victims < Len(sorted) /\ sorted[victims + 1].hit = 0
    THEN ZeroRun(sorted, victims + 1)
    ELSE victims

\* victims := len(stmts) - c.maxStmt/2, the sort and the loop over the zero
\* hits: the keys of stmts[:victims], for every order the sort can produce
DropKeys(stmts) ==
    LET victims == Len(stmts) - (maxStmt \div 2)
    IN  { {sorted[i].q : i \in 1..ZeroRun(sorted, victims)} :
          sorted \in SortedBy(stmts, DOMAIN stmts) }

\* the prune that is skipped only when the map is empty
dropStmts_noSkip ==
    /\ Running
    /\ wrk.pc = "drop"
    /\ lock = "free"
    /\ IF stmt = {}
       THEN wrk' = [wrk EXCEPT !.pc = "exit"]
       ELSE wrk' = [wrk EXCEPT !.pc = "coll", !.todo = stmt,
                               !.stmts = [i \in 1..Cardinality(stmt) |-> [hit |-> 0, q |-> ""]]]
    /\ UNCHANGED <<ent, stmt, stmtNil, lock, psCount, hit, wrkStatus, stats, db,
                   caller, cl, ncalls, panicked>>
    /\ UNCHANGED <<cfg, cycle>>

\* c.dropStmts(): c.l.RLock(); return if len(c.stmt) < c.maxStmt/2, else
\* stmts := make([]_stmt, len(c.stmt)), a slice of len(c.stmt) zero records
\* {hit: 0, q: ""}, and the start of the range over c.stmt
dropStmts ==
    /\ Running
    /\ wrk.pc = "drop"
    /\ lock = "free"
    /\ IF Cardinality(stmt) < maxStmt \div 2
       THEN wrk' = [wrk EXCEPT !.pc = "exit"]
       ELSE wrk' = [wrk EXCEPT !.pc = "coll", !.todo = stmt,
                               !.stmts = [i \in 1..Cardinality(stmt) |-> [hit |-> 0, q |-> ""]]]
    /\ UNCHANGED <<ent, stmt, stmtNil, lock, psCount, hit, wrkStatus, stats, db,
                   caller, cl, ncalls, panicked>>
    /\ UNCHANGED <<cfg, cycle>>

\* One iteration of "for q, s := range c.stmt": if s.get() == nil, append the
\* record of its hit and key.  The range over: RUnlock, then victims, the sort
\* and the zero-hit loop, which name the keys to delete.
dropStmts_collect ==
    /\ Running
    /\ wrk.pc = "coll"
    /\ IF wrk.todo = {}
       THEN \E d \in DropKeys(wrk.stmts) :
              wrk' = [wrk EXCEPT !.pc = "del", !.drop = d, !.stmts = <<>>]
       ELSE \E s \in wrk.todo :
              wrk' = [wrk EXCEPT !.todo = @ \ {s},
                        !.stmts = IF get(s) = 0
                                  THEN Append(@, [hit |-> ent[s].hit, q |-> ent[s].q])
                                  ELSE @]
    /\ UNCHANGED <<ent, stmt, stmtNil, lock, psCount, hit, wrkStatus, stats, db,
                   caller, cl, ncalls, panicked>>
    /\ UNCHANGED <<cfg, cycle>>

\* c.dropStmts(), second half: under Lock, delete(c.stmt, s.q) for each victim.
\* (The lock is released and retaken after every 256 deletions.)
dropStmts_delete ==
    /\ Running
    /\ wrk.pc = "del"
    /\ Unlocked
    /\ stmt' = {i \in stmt : ent[i].q \notin wrk.drop}
    /\ wrk' = [wrk EXCEPT !.pc = "exit", !.drop = {}]
    /\ UNCHANGED <<ent, stmtNil, lock, psCount, hit, wrkStatus, stats, db,
                   caller, cl, ncalls, panicked>>
    /\ UNCHANGED <<cfg, cycle>>

\* defer atomic.StoreUint32(&c.wrkStatus, 0)
wrk_exit ==
    /\ Running
    /\ wrk.pc = "exit"
    /\ wrkStatus' = 0
    /\ wrk' = IdleWrk
    /\ cycle' = [NoCycle EXCEPT !.ran = TRUE, !.failed = cycle.failed]
    /\ UNCHANGED <<ent, stmt, stmtNil, lock, psCount, hit, stats, db,
                   caller, cl, ncalls, panicked>>
    /\ UNCHANGED cfg

Wrk ==
    \/ wrk_getCandidates
    \/ wrk_scan
    \/ wrk_scanCompare
    \/ wrk_policy
    \/ wrk_policyCompare
    \/ wrk_victimCheck
    \/ wrk_victimGet
    \/ wrk_victimPutNil
    \/ wrk_victimWait
    \/ wrk_victimCount
    \/ wrk_victimClose
    \/ wrk_replacementCheck
    \/ wrk_prepare
    \/ wrk_replacementPut
    \/ wrk_replacementCount
    \/ updateHits
    \/ updateHits_load
    \/ updateHits_cas
    \/ dropStmts
    \/ dropStmts_collect
    \/ dropStmts_delete
    \/ wrk_exit

\* ------------------------------------------------------------ teardown
\* Close without the test c.stmt == nil
Close_lock_noNilCheck ==
    /\ Running
    /\ cl.pc = "idle"
    /\ cl.calls < MaxCloseCalls
    /\ Unlocked
    /\ cl' = [cl EXCEPT !.calls = @ + 1, !.pc = "loop", !.todo = stmt]
    /\ lock' = "Close"
    /\ UNCHANGED <<ent, stmt, stmtNil, psCount, hit, wrkStatus, stats, db,
                   caller, wrk, ncalls, panicked>>
    /\ UNCHANGED <<cfg, cycle>>

\* c.l.Lock(); if c.stmt == nil { return }
Close_lock ==
    /\ Running
    /\ cl.pc = "idle"
    /\ cl.calls < MaxCloseCalls
    /\ Unlocked
    /\ IF stmtNil
       THEN /\ cl' = [cl EXCEPT !.calls = @ + 1]
            /\ UNCHANGED lock
       ELSE /\ cl' = [cl EXCEPT !.calls = @ + 1, !.pc = "loop", !.todo = stmt]
            /\ lock' = "Close"
    /\ UNCHANGED <<ent, stmt, stmtNil, psCount, hit, wrkStatus, stats, db,
                   caller, wrk, ncalls, panicked>>
    /\ UNCHANGED <<cfg, cycle>>

\* for _, s := range c.stmt { if ps := s.get(); ps != nil { ... } }; c.stmt = nil
Close_range ==
    /\ Running
    /\ cl.pc = "loop"
    /\ IF cl.todo = {}
       THEN /\ stmt' = {}
            /\ stmtNil' = TRUE
            /\ lock' = "free"
            /\ cl' = [IdleCl EXCEPT !.calls = cl.calls]
       ELSE /\ \E s \in cl.todo :
                 cl' = [cl EXCEPT !.todo = @ \ {s}, !.s = s, !.ps = get(s), !.err = FALSE,
                                  !.pc = IF get(s) # 0 THEN "put" ELSE "loop"]
            /\ UNCHANGED <<stmt, stmtNil, lock>>
    /\ UNCHANGED <<ent, psCount, hit, wrkStatus, stats, db, caller, wrk, ncalls, panicked>>
    /\ UNCHANGED <<cfg, cycle>>

\* s.put(nil)
Close_putNil ==
    /\ Running
    /\ cl.pc = "put"
    /\ ent' = clear(cl.s)
    /\ cl' = [cl EXCEPT !.pc = "wait"]
    /\ UNCHANGED <<stmt, stmtNil, lock, psCount, hit, wrkStatus, stats, db,
                   caller, wrk, ncalls, panicked>>
    /\ UNCHANGED <<cfg, cycle>>

\* s.wait()
Close_wait ==
    /\ Running
    /\ cl.pc = "wait"
    /\ quiesced(cl.s)
    /\ cl' = [cl EXCEPT !.pc = "dec"]
    /\ UNCHANGED <<ent, stmt, stmtNil, lock, psCount, hit, wrkStatus, stats, db,
                   caller, wrk, ncalls, panicked>>
    /\ UNCHANGED <<cfg, cycle>>

\* atomic.AddUint32(&c.psCount, ^uint32(0)); atomic.AddUint64(&c.stats.Unprepared, 1)
Close_count ==
    /\ Running
    /\ cl.pc = "dec"
    /\ psCount' = Dec32(psCount)
    /\ stats' = Bump("Unprepared")
    /\ cl' = [cl EXCEPT !.pc = "close"]
    /\ UNCHANGED <<ent, stmt, stmtNil, lock, hit, wrkStatus, db,
                   caller, wrk, ncalls, panicked>>
    /\ UNCHANGED <<cfg, cycle>>

\* ps.Close()   (ps is not nil here)
Close_stmtClose ==
    /\ Running
    /\ cl.pc = "close"
    /\ db' = [db EXCEPT ![cl.ps].closes = @ + 1]
    /\ \E e \in BOOLEAN : cl' = [cl EXCEPT !.pc = "loop", !.s = 0, !.ps = 0, !.err = e]
    /\ UNCHANGED <<ent, stmt, stmtNil, lock, psCount, hit, wrkStatus, stats,
                   caller, wrk, ncalls, panicked>>
    /\ UNCHANGED <<cfg, cycle>>

Close ==
    \/ Close_lock
    \/ Close_range
    \/ Close_putNil
    \/ Close_wait
    \/ Close_count
    \/ Close_stmtClose

Next ==
    \/ \E c \in Callers : Dispatch(c)
    \/ Wrk
    \/ Close

Spec == Init /\ [][Next]_vars

\* ------------------------------------------------------------ steady use
\* wrk on a database whose Prepare always succeeds
WrkNoErr ==
    \/ wrk_getCandidates
    \/ wrk_scan
    \/ wrk_scanCompare
    \/ wrk_policy
    \/ wrk_policyCompare
    \/ wrk_victimCheck
    \/ wrk_victimGet
    \/ wrk_victimPutNil
    \/ wrk_victimWait
    \/ wrk_victimCount
    \/ wrk_victimClose
    \/ wrk_replacementCheck
    \/ wrk_prepareOk
    \/ wrk_replacementPut
    \/ wrk_replacementCount
    \/ updateHits
    \/ updateHits_load
    \/ updateHits_cas
    \/ dropStmts
    \/ dropStmts_collect
    \/ dropStmts_delete
    \/ wrk_exit

\* The applications of SpecWork never call Close.  One sends a single eligible
\* query, from one goroutine or from several, to a cache with maxPS = 1; the
\* other sends two or three eligible queries from one goroutine to a cache
\* with room for one or two statements.  wrkThreshold is at least 1, and
\* maxStmt / 2 is more than one entry, as in every cache New() returns.
InitWork ==
    /\ maxStmt = 2 * SmallMaxStmt
    /\ maxSqlLen = SmallMaxSqlLen
    /\ wrkThreshold \in 1..MaxThreshold + 1
    /\ newCall = Constructed
    /\ budget = WorkCalls
    /\ \/ /\ maxPS = 1
          /\ goroutines \in {1..n : n \in 1..MaxGoroutines}
          /\ work \in {{""}, {Pad(maxSqlLen)}}
       \/ /\ maxPS \in SmallMaxPS..SmallMaxPS + 1
          /\ goroutines = {1}
          /\ work \in {w \in SUBSET {"", Pad(maxSqlLen), "b"} : Cardinality(w) >= 2}
    /\ Fresh

NextWork ==
    \/ \E c \in Callers : Dispatch(c)
    \/ WrkNoErr

\* the goroutines of the application and the worker are scheduled
SpecWork == InitWork /\ [][NextWork]_vars /\ WF_vars(\E c \in Callers : Dispatch(c)) /\ WF_vars(WrkNoErr)
\* ------------------------------------------------------------ draining
\* The application of SpecDrain sends two eligible queries from all its
\* goroutines and calls Close.  A goroutine that holds a handle goes on to
\* release it, and a wait whose condition holds returns; nothing else is
\* assumed of the scheduler.
InitDrain ==
    /\ maxPS = SmallMaxPS
    /\ maxStmt = SmallMaxStmt
    /\ maxSqlLen = SmallMaxSqlLen
    /\ wrkThreshold \in 0..MaxThreshold
    /\ newCall = Constructed
    /\ goroutines = 1..NumCallers
    /\ work = {Pad(maxSqlLen), "b"}
    /\ budget = MaxCalls
    /\ Fresh

SpecDrain ==
    /\ InitDrain
    /\ [][Next]_vars
    /\ \A c \in Callers : WF_vars(release(c))
    /\ WF_vars(wrk_victimWait)
    /\ WF_vars(Close_wait)

\* SpecLive runs the application of SpecDrain under the Go scheduler: every
\* goroutine that is inside a call, the worker and a Close that has begun
\* take their next step whenever they can.  Nothing is assumed about when
\* the application begins a call or calls Close.
SpecLive ==
    /\ InitDrain
    /\ [][Next]_vars
    /\ \A c \in Callers : WF_vars(caller[c].pc # "idle" /\ Dispatch(c))
    /\ WF_vars(Wrk)
    /\ WF_vars(cl.pc # "idle" /\ Close)

\* ------------------------------------------------------------ a cache in use
\* The keys of the cache SpecWarm starts from: the empty query and two more.
WarmKeys == <<"", Pad(SmallMaxSqlLen), "b">>

\* The entries of a cache in use: P are the positions of those that hold a
\* statement (the statements the database has prepared and not closed, numbered
\* in the order of the entries), h the hit of each.  No call is in flight.
WarmEnt(P, h) ==
    [i \in DOMAIN WarmKeys |->
        [q |-> WarmKeys[i],
         ps |-> IF i \in P THEN Cardinality({j \in P : j <= i}) ELSE 0,
         psHandles |-> 0,
         hit |-> h[i]]]

\* SpecWarm starts where a call has just launched a cycle on a cache in use: any
\* subset of the tracked keys holds a statement, within maxPS, and every entry
\* has any hit up to WarmHit.  The application goes on sending two of the
\* tracked queries from one goroutine, never calls Close, and Prepare succeeds
\* or fails.
InitWarm ==
    /\ maxPS \in 1..Len(WarmKeys)
    /\ maxStmt = 2 * SmallMaxStmt
    /\ maxSqlLen = SmallMaxSqlLen
    /\ wrkThreshold = MaxThreshold
    /\ newCall = Constructed
    /\ goroutines = {1}
    /\ work = {WarmKeys[2], WarmKeys[3]}
    /\ budget = WarmCalls
    /\ \E P \in SUBSET DOMAIN WarmKeys : \E h \in [DOMAIN WarmKeys -> 0..WarmHit] :
          /\ Cardinality(P) <= maxPS
          /\ ent = WarmEnt(P, h)
          /\ stmt = DOMAIN WarmKeys
          /\ psCount = Cardinality(P)
          /\ db = [p \in 1..Cardinality(P) |-> [closes |-> 0, execs |-> 0]]
          /\ stats = [Hits |-> 0, Misses |-> Len(WarmKeys), Skips |-> 0,
                      Prepared |-> Cardinality(P), Unprepared |-> 0]
    /\ stmtNil = FALSE
    /\ lock = "free"
    /\ hit = 0
    /\ wrkStatus = 1
    /\ caller = [c \in Callers |-> IdleCaller]
    /\ wrk = [IdleWrk EXCEPT !.pc = "cand"]
    /\ cl = IdleCl
    /\ ncalls = 0
    /\ panicked = "no"
    /\ cycle = [NoCycle EXCEPT !.ran = TRUE]

NextWarm ==
    \/ \E c \in Callers : Dispatch(c)
    \/ Wrk

SpecWarm == InitWarm /\ [][NextWarm]_vars

\* ------------------------------------------------------------ a full map
\* The application of SpecFull sends three eligible queries, one more than
\* the map takes, from all its goroutines to a new cache, and never calls
\* Close.
InitFull ==
    /\ maxPS = SmallMaxPS
    /\ maxStmt = SmallMaxStmt
    /\ maxSqlLen = SmallMaxSqlLen
    /\ wrkThreshold \in 0..MaxThreshold
    /\ newCall = Constructed
    /\ goroutines = 1..NumCallers
    /\ work = {"", Pad(maxSqlLen), "b"}
    /\ budget = MaxCalls
    /\ Fresh

SpecFull == InitFull /\ [][NextWarm]_vars

\* ================================================================ claims
\* a goroutine (wrk or Close) has stored nil in entry s and its wait on s has
\* not returned yet
Draining(s) ==
    \/ wrk.pc = "vwait" /\ wrk.victim = s
    \/ cl.pc = "wait" /\ cl.s = s

\* Close has returned, c.stmt is nil, and no wrk cycle is in flight
TornDown == Running /\ stmtNil /\ cl.pc = "idle" /\ wrk.pc = "idle"

\* C1: the database Close of a statement is issued only when no caller holds a
\* handle on it, and no caller executes through a statement that has been
\* closed: a caller that is executing holds a statement with no Close issued,
\* and a goroutine about to issue Close sees psHandles = 0 on the entry.
C1_CloseOnlyWhenUnused ==
    /\ \A c \in Callers : caller[c].pc = "exec" => db[caller[c].ps].closes = 0
    /\ wrk.pc = "vclose" => ent[wrk.victim].psHandles = 0
    /\ cl.pc = "close" => ent[cl.s].psHandles = 0

\* C1 witness: a statement a caller has executed through has been closed
C1_Witness ==
    \E p \in DOMAIN db : db[p].closes >= 1 /\ db[p].execs >= 1

C3_PreparedBounded ==
    /\ Cardinality(Prepared) <= maxPS
    /\ psCount <= maxPS

\* C4: the map never holds more than maxStmt entries
C4_TrackerBounded == Cardinality(stmt) <= maxStmt

\* C4 witness: the map is full and a call for an untracked key is about to
\* take the write lock for its insertion
C4_Witness ==
    /\ Cardinality(stmt) = maxStmt
    /\ \E c \in Callers : caller[c].pc = "ins" /\ Lookup(caller[c].q) = 0

\* C5: when neither wrk nor Close is in the middle of a step, psCount equals
\* the number of entries of the map that hold a statement
C5_Accounting ==
    (Running /\ wrk.pc = "idle" /\ cl.pc = "idle") => psCount = Cardinality(Prepared)

\* C6: after Close has returned and the wrk cycle in flight has ended, every
\* statement the database prepared has been closed exactly once and psCount = 0
C6_TeardownClosesAll ==
    TornDown => (psCount = 0 /\ \A p \in DOMAIN db : db[p].closes = 1)

\* C7: a dispatcher call made after Close has completed does not panic
C7_NoPanicAfterClose ==
    stmtNil => panicked # "assignment to entry in nil map"

\* C8: a call of Close made after a first Close has completed returns at once
\* and changes neither the database, nor a counter, nor the map or its entries
C8_SecondCloseNoop ==
    [][(cl.pc = "idle" /\ cl.calls >= 1 /\ cl' # cl)
        => (cl'.pc = "idle" /\ UNCHANGED <<ent, stmt, stmtNil, lock, psCount, stats, db>>)]_vars

\* C8 witness: the second call of Close has returned
C8_Witness == cl.pc = "idle" /\ cl.calls = 2 /\ stmtNil

C10_SingleWrk ==
    /\ [](Running => (wrkStatus = 1 <=> wrk.pc # "idle"))
    /\ [][(wrk'.pc = "cand" /\ wrk.pc # "cand") => (wrk.pc = "idle" /\ wrkStatus = 0)]_vars

\* C10 witness: a caller that crossed the threshold reaches the compare-and-swap
\* on wrkStatus while a cycle is running
C10_Witness ==
    \E c \in Callers : caller[c].pc = "spawn" /\ wrkStatus = 1 /\ wrk.pc # "idle"

\* ---------------------------------------------------------------- C14
\* C14 (as stated): a dispatcher call with a key longer than maxSqlLen
\* increments Skips and no other counter, and changes neither the tick counter
\* nor the map nor an entry
C14_SkipOnly ==
    [][\A c \in Callers : \A q \in work :
          (Len(q) > maxSqlLen /\ getPS(c, q)) =>
              /\ stats' = [stats EXCEPT !.Skips = @ + 1]
              /\ UNCHANGED <<hit, ent, stmt, stmtNil, db, wrk, wrkStatus>>]_vars

\* C14 (amended): such a call increments Skips and Misses, each by one, leaves
\* Hits, Prepared and Unprepared as they are, and changes neither the tick
\* counter nor the map nor an entry, launches no cycle and touches no statement
C14_SkipAndMiss ==
    [][\A c \in Callers : \A q \in work :
          (Len(q) > maxSqlLen /\ getPS(c, q)) =>
              /\ stats' = [stats EXCEPT !.Skips = @ + 1, !.Misses = @ + 1]
              /\ caller'[c].pc = "idle"
              /\ UNCHANGED <<hit, ent, stmt, stmtNil, db, wrk, wrkStatus>>]_vars

\* C14 witness: a call with a key longer than maxSqlLen has been made
C14_Witness == stats.Skips >= 1 /\ stats.Misses = stats.Skips /\ ncalls = stats.Skips

C16_FullMapNoInsert ==
    /\ [][\A c \in Callers :
            (/\ caller[c].pc = "ins"
             /\ Cardinality(stmt) >= maxStmt
             /\ Lookup(caller[c].q) = 0
             /\ caller'[c] # caller[c]) =>
                /\ UNCHANGED <<stmt, stmtNil, ent, db, psCount>>
                /\ stats' = [stats EXCEPT !.Misses = @ + 1]
                /\ caller'[c] = IdleCaller]_vars
    /\ [][\A c \in Callers :
            (caller[c].pc \in {"tick", "cas", "spawn"} /\ ~caller[c].ok
               /\ caller'[c] # caller[c]) => UNCHANGED <<stmt, stmtNil, ent, db, psCount>>]_vars

\* C16 witness: maxStmt + 1 calls have returned, no cycle has run, the map
\* holds maxStmt entries that no call has found, and every call was a miss
C16_Witness ==
    /\ ~cycle.ran
    /\ Cardinality(stmt) = maxStmt
    /\ \A i \in stmt : ent[i].hit = 1
    /\ stats.Misses = maxStmt + 1
    /\ stats.Skips = 0
    /\ \A c \in Callers : caller[c].pc = "idle"

\* ---------------------------------------------------------------- C19
\* C19: a cycle is launched only by a call that is past its compare-and-swap on
\* the tick counter, and a call gets past it only if its own tick made the
\* counter exceed wrkThreshold and the counter still has that value, which
\* the compare-and-swap resets; while no cycle has run, no entry holds a
\* statement, the database has prepared nothing, Hits is 0 and every call for
\* an eligible key that returns has counted one miss; and no step of a
\* dispatcher call prepares or closes a statement or changes psCount
C19_NoLaunchBelowThreshold ==
    /\ [][(wrk.pc = "idle" /\ wrk'.pc # "idle") =>
            \E c \in Callers : caller[c].pc = "spawn" /\ caller'[c].pc # "spawn"]_vars
    /\ [][\A c \in Callers :
            (caller[c].pc # "spawn" /\ caller'[c].pc = "spawn") =>
                /\ caller[c].pc = "cas"
                /\ hit = caller[c].hit
                /\ hit > wrkThreshold
                /\ hit' = 0]_vars
    /\ [][\A c \in Callers :
            (caller[c].pc = "tick" /\ caller'[c].pc = "cas") =>
                (hit' > wrkThreshold /\ caller'[c].hit = hit')]_vars
    /\ [](~cycle.ran =>
            /\ \A i \in DOMAIN ent : ent[i].ps = 0
            /\ db = <<>>
            /\ psCount = 0
            /\ stats.Hits = 0 /\ stats.Prepared = 0 /\ stats.Unprepared = 0)
    /\ [][\A c \in Callers :
            (~cycle.ran /\ caller[c].pc # "idle" /\ caller'[c].pc = "idle") =>
                stats' = [stats EXCEPT !.Misses = @ + 1]]_vars
    /\ [][caller' # caller =>
            /\ psCount' = psCount
            /\ Len(db') = Len(db)
            /\ \A p \in DOMAIN db : db'[p].closes = db[p].closes]_vars

\* C19 witness: wrkThreshold calls have been counted and have returned as
\* misses, with the largest threshold, and no cycle has been launched
C19_Witness ==
    /\ wrkThreshold = MaxThreshold
    /\ hit = wrkThreshold
    /\ stats.Misses = wrkThreshold
    /\ ncalls = wrkThreshold
    /\ ~cycle.ran /\ wrk.pc = "idle" /\ wrkStatus = 0
    /\ \A c \in Callers : caller[c].pc = "idle"

InRange(o) ==
    CASE o.opt = "WithMaxPreparedStmt" -> 1 <= o.max /\ o.max <= 4096
      [] o.opt = "WithMaxStmt"         -> 128 <= o.max /\ o.max <= 65536
      [] o.opt = "WithMaxQueryLen"     -> 32 <= o.max /\ o.max <= 1048576

\* the value of the last option named n among the supplied ones, d if none
Supplied(n, d) ==
    LET I == {i \in DOMAIN newCall.opts : newCall.opts[i].opt = n}
    IN  IF I = {} THEN d ELSE newCall.opts[CHOOSE i \in I : \A j \in I : j <= i].max

C18_ZeroDisables ==
    (newCall.opts = <<[opt |-> "WithMaxPreparedStmt", max |-> 0]>> /\ newCall.pc # "opts")
        => (newCall.pc = "ok" /\ maxPS = 0)


\* C11: a cycle whose scan finds psCount < maxPS and an absent entry picks the
\* absent entry with the most hits as replacement, whatever the hits of the
\* prepared entries are, and evicts nothing.
C11_FreeSlotPrepares ==
    [][(wrk.pc \in {"pol", "pol2"} /\ wrk'.pc = "vchk" /\ psCount < maxPS /\ Absent # {}) =>
          (wrk'.replacement # 0 /\ wrk'.replacement = wrk.replacement)]_vars

\* C12: while the application executes N <= maxPS distinct eligible queries,
\* every cycle that starts with a free slot and a tracked query without a
\* statement prepares one more query, so that psCount climbs to N.
C12_OneMorePerCycle ==
    (wrk.pc = "exit" /\ Cardinality(work) <= maxPS /\ cycle.psCount < maxPS /\ cycle.absent) =>
        /\ stats.Prepared = cycle.Prepared + 1
        /\ psCount = cycle.psCount + 1

\* C13: with maxPS = 1 and a single eligible key executed repeatedly, at most
\* one statement is ever prepared and none is ever unprepared.
C13_PreparedOnce ==
    (maxPS = 1 /\ Cardinality(work) = 1) => (stats.Unprepared = 0 /\ stats.Prepared <= 1)

\* ---------------------------------------------------------------- C21
StatNames == {"Hits", "Misses", "Skips", "Prepared", "Unprepared"}

\* C21: no step of a dispatcher call, of a wrk cycle or of Close lowers one of
\* the five statistics counters
C21_StatsMonotone ==
    [][\A f \in StatNames : stats'[f] >= stats[f]]_vars

\* C21 witness: every one of the five counters has been incremented, and Close
\* has returned
C21_Witness ==
    /\ \A f \in StatNames : stats[f] >= 1
    /\ stmtNil /\ cl.pc = "idle"

C23_ScanPicksExtremes ==
    wrk.pc = "pol" =>
        /\ IF Prepared = {} THEN wrk.victim = 0
           ELSE /\ wrk.victim \in Prepared
                /\ \A j \in Prepared : ent[j].hit >= cycle.hit[wrk.victim]
        /\ IF Absent = {} THEN wrk.replacement = 0
           ELSE /\ wrk.replacement \in Absent
                /\ \A j \in Absent : cycle.hit[j] <= ent[wrk.replacement].hit

\* C24: in a cycle where getCandidates has a victim and a replacement and
\* victim.hit >= replacement.hit, it returns neither of them, and the cycle
\* issues no Close and no Prepare: psCount, stats.Prepared and stats.Unprepared
\* are at the end of the cycle what they were at its start.
C24_NoChurn ==
    /\ [][(wrk.pc = "pol2" /\ wrk'.pc = "vchk" /\ cycle.lead)
            => (wrk'.victim = 0 /\ wrk'.replacement = 0)]_vars
    /\ []((wrk.pc = "exit" /\ wrk.victim = 0 /\ wrk.replacement = 0)
            => /\ cycle.calls = <<>>
               /\ psCount = cycle.psCount
               /\ stats.Prepared = cycle.Prepared
               /\ stats.Unprepared = cycle.Unprepared)

\* C25: when the tracker holds no absent entry, a cycle closes a statement only
\* if psCount >= maxPS and the least-hit prepared entry has hit 0; if every
\* prepared entry has hit > 0 the cycle closes nothing.
C25_IdleVictimOnly ==
    /\ [][(wrk.pc = "pol" /\ wrk'.pc = "vchk" /\ Absent = {}
             /\ \A j \in Prepared : ent[j].hit > 0) => wrk'.victim = 0]_vars
    /\ [][(wrk.pc = "vchk" /\ wrk'.pc = "vget") => (wrk.victim # 0 /\ psCount >= maxPS)]_vars
    /\ []((wrk.pc \notin {"idle", "cand", "scan", "cmp", "pol", "pol2"} /\ wrk.victim = 0)
             => \A i \in DOMAIN cycle.calls : cycle.calls[i] # "Close")

\* a cycle that found no absent entry is closing the statement of its victim
C25_Witness ==
    /\ wrk.pc = "vclose" /\ wrk.ps # 0
    /\ ~cycle.absent /\ wrk.replacement = 0
    /\ Cardinality(stmt) > 1

\* the Close calls a cycle has issued so far
Closes == Cardinality({i \in DOMAIN cycle.calls : cycle.calls[i] = "Close"})

\* C26: when Prepare fails in a cycle, the replacement stays a tracked, absent
\* entry, psCount and stats.Prepared are not changed by the attempt, the cycle
\* goes on to decay and prune, no call of the dispatcher is disturbed and the
\* process does not panic; the entry may be the replacement of a later cycle.
C26_PrepareFailure ==
    /\ [][(Len(cycle'.calls) = Len(cycle.calls) + 1
             /\ cycle'.calls[Len(cycle'.calls)] = "Prepare failed")
            => /\ wrk'.pc = "decay"
               /\ wrk.replacement \in stmt' /\ ent'[wrk.replacement].ps = 0
               /\ psCount' = psCount /\ stats' = stats
               /\ caller' = caller /\ panicked' = panicked
               /\ wrk.replacement \in cycle'.failed]_vars
    /\ []((wrk.pc = "exit" /\ cycle.calls # <<>>
             /\ cycle.calls[Len(cycle.calls)] = "Prepare failed")
            => /\ stats.Prepared = cycle.Prepared
               /\ psCount = cycle.psCount - Closes)

\* a cycle is about to prepare an entry whose Prepare failed in an earlier cycle
C26_Witness ==
    wrk.pc = "prep" /\ wrk.replacement \in cycle.failed

\* C27: when the database Close of a statement returns an error, in an eviction
\* or in a teardown, things are as after a successful Close: the entry holds no
\* statement, psCount has been decremented by one and stats.Unprepared
\* incremented by one, before the call, and neither is taken back; the cycle
\* goes on to its replacement and Close to the next entry.
C27_CloseErrorIgnored ==
    /\ [][(wrk.pc = "vdec" /\ wrk'.pc = "vclose")
            => /\ psCount' = (psCount + 2^Width - 1) % 2^Width
               /\ stats' = [stats EXCEPT !.Unprepared = @ + 1]]_vars
    /\ [][(cl.pc = "dec" /\ cl'.pc = "close")
            => /\ psCount' = (psCount + 2^Width - 1) % 2^Width
               /\ stats' = [stats EXCEPT !.Unprepared = @ + 1]]_vars
    /\ [][(wrk.pc = "vclose" /\ wrk'.err)
            => /\ wrk'.pc = "rchk"
               /\ ent'[wrk.victim].ps = 0
               /\ psCount' = psCount /\ stats' = stats /\ panicked' = panicked]_vars
    /\ [][(cl.pc = "close" /\ cl'.err)
            => /\ cl'.pc = "loop" /\ cl'.todo = cl.todo
               /\ ent'[cl.s].ps = 0
               /\ psCount' = psCount /\ stats' = stats /\ panicked' = panicked]_vars
    /\ [][(wrk.err /\ wrk' # wrk) => wrk'.pc \in {"prep", "decay"}]_vars
    /\ [][(cl.err /\ cl' # cl) => cl'.pc \in {"put", "loop", "idle"}]_vars

\* C27 witness: the database Close of an eviction and that of a teardown have
\* both just returned an error
C27_Witness ==
    /\ wrk.pc = "rchk" /\ wrk.err
    /\ cl.pc = "loop" /\ cl.err

\* C28: a decay pass halves every entry of the map once, and each halving is
\* atomic with respect to the increments of the dispatcher: a step changes the
\* hit of an entry only by adding one to it or by replacing the value it has
\* at that moment by its half, so no increment is overwritten by the half of
\* an older value; a compare-and-swap that fails changes nothing and is tried
\* again on the same entry, and the pass ends only when no entry is left.
C28_DecayAtomic ==
    /\ [][\A s \in DOMAIN ent :
            ent'[s].hit # ent[s].hit =>
                \/ ent'[s].hit = ent[s].hit + 1
                \/ /\ wrk.pc = "hcas" /\ wrk.s = s /\ s \notin wrk.todo
                   /\ ent'[s].hit = ent[s].hit \div 2
                   /\ wrk'.s = 0 /\ wrk'.todo = wrk.todo]_vars
    /\ [][(wrk.pc = "hcas" /\ wrk'.pc # "hcas" /\ ent[wrk.s].hit # wrk.h)
            => (ent' = ent /\ wrk'.s = wrk.s /\ wrk'.pc = "halve")]_vars
    /\ [][(wrk.pc = "halve" /\ wrk.s # 0 /\ wrk' # wrk)
            => (wrk'.pc = "hcas" /\ wrk'.s = wrk.s /\ wrk'.h = ent[wrk.s].hit)]_vars
    /\ [][(wrk.pc \in {"halve", "hcas"} /\ wrk'.pc \notin {"halve", "hcas"})
            => (wrk.todo = {} /\ wrk.s = 0)]_vars

\* C28 witness: an increment has arrived on an entry with hits between the
\* load of its hit and the compare-and-swap, which is about to fail
C28_Witness ==
    /\ wrk.pc = "hcas"
    /\ wrk.h >= 1
    /\ ent[wrk.s].hit = wrk.h + 1
    /\ \E c \in Callers : caller[c].pc = "acq" /\ caller[c].s = wrk.s


\* ---------------------------------------------------------------- C29
\* the records dropStmts has collected from the entries of the map: those it
\* appended behind the len(c.stmt) records the slice was made with
Snapshot == {wrk.stmts[i] : i \in Cardinality(stmt) + 1 .. Len(wrk.stmts)}

\* the entries of the map under the keys d
Tracked(d) == {i \in stmt : ent[i].q \in d}

\* C29: when a prune runs on a map of N >= maxStmt/2 entries, the entries it
\* removes are k entries of its snapshot of the absent entries, with
\* k = max(A - maxStmt/2, z) for A records in the snapshot of which z have hit
\* 0: at most maxStmt/2 of the snapshot stay, none of them with hit 0, and no
\* removed entry had more hits in the snapshot than one that stays.
C29_PruneLowest ==
    [][(wrk.pc = "coll" /\ wrk'.pc = "del") =>
          LET A == Cardinality(Snapshot)
              z == Cardinality({r \in Snapshot : r.hit = 0})
              k == IF A - (maxStmt \div 2) > z THEN A - (maxStmt \div 2) ELSE z
              gone == {r \in Snapshot : r.q \in wrk'.drop}
              kept == Snapshot \ gone
          IN  /\ Tracked(wrk'.drop) = Tracked({r.q : r \in gone})
              /\ Cardinality(gone) = k
              /\ Cardinality(kept) <= maxStmt \div 2
              /\ \A r \in kept : r.hit # 0
              /\ \A r \in gone : \A t \in kept : r.hit <= t.hit]_vars

\* ---------------------------------------------------------------- C30
\* C30: the deletions of a prune remove from the map no entry that holds a
\* statement and none with a handle outstanding, whatever its key, the empty
\* query included.
C30_PruneOnlyAbsent ==
    [][(wrk.pc = "del" /\ wrk'.pc # "del") =>
          \A i \in stmt \ stmt' : ent[i].ps = 0 /\ ent[i].psHandles = 0]_vars

\* ---------------------------------------------------------------- C31
\* C31: when the map holds fewer than maxStmt/2 entries as the prune begins,
\* the prune returns at once and removes nothing, entries with hit 0 included:
\* the collection is entered only with at least maxStmt/2 entries, and no other
\* step of a cycle takes an entry out of the map.
C31_SmallMapNotPruned ==
    /\ [][(wrk.pc = "drop" /\ wrk' # wrk /\ Cardinality(stmt) < maxStmt \div 2)
            => (wrk'.pc = "exit" /\ stmt' = stmt /\ ent' = ent)]_vars
    /\ [][(wrk.pc # "coll" /\ wrk'.pc = "coll") => Cardinality(stmt) >= maxStmt \div 2]_vars
    /\ [][(wrk' # wrk /\ wrk.pc # "del") => stmt' = stmt]_vars

\* C31 witness: a cycle on a map of a single entry, fewer than maxStmt/2, has
\* ended, and the entry is still there with hit 0
C31_Witness ==
    /\ wrk.pc = "exit" /\ Cardinality(work) = 1
    /\ Cardinality(stmt) = 1 /\ Cardinality(stmt) < maxStmt \div 2
    /\ \A i \in stmt : ent[i].hit = 0

\* ---------------------------------------------------------------- C32
\* C32: when several calls miss the same key in their lookup, one entry is
\* created for it: the map never holds two entries with one key, and a call
\* that takes the write lock and finds the key in the map goes on with the
\* entry that is there; no insertion step changes an entry that exists, so its
\* hit and its statement are not reset.
C32_InsertOnce ==
    /\ [](\A i, j \in stmt : ent[i].q = ent[j].q => i = j)
    /\ [][\A c \in Callers :
            (caller[c].pc = "ins" /\ caller'[c] # caller[c]) =>
                /\ \A i \in DOMAIN ent : ent'[i] = ent[i]
                /\ stmt \subseteq stmt'
                /\ (Lookup(caller[c].q) # 0 /\ Cardinality(stmt) < maxStmt) =>
                      /\ caller'[c].pc = "inc"
                      /\ caller'[c].s = Lookup(caller[c].q)
                      /\ ent' = ent /\ stmt' = stmt /\ stats' = stats
                /\ Lookup(caller[c].q) # 0 => (stmt' = stmt /\ ent' = ent)]_vars

\* C32 witness: a call that missed its key has taken the write lock after
\* another call inserted the key and a cycle prepared it
C32_Witness ==
    \E c \in Callers :
        /\ caller[c].pc = "ins"
        /\ Cardinality(stmt) < maxStmt
        /\ Lookup(caller[c].q) # 0
        /\ ent[Lookup(caller[c].q)].ps # 0

\* ---------------------------------------------------------------- C33
\* C33: the call that inserts an eligible key creates an entry with hit 1 and
\* no statement and is served ad hoc, as a miss; every call that has found an
\* entry adds exactly one to that entry's hit, once, before it acquires, whether
\* it is then served through the statement or ad hoc, and no other step of a
\* call changes a hit.
C33_HitPerCall ==
    [][\A c \in Callers :
          caller'[c] # caller[c] =>
            /\ (caller[c].pc = "ins" /\ Len(ent') > Len(ent)) =>
                  /\ Len(caller[c].q) <= maxSqlLen /\ Cardinality(stmt) < maxStmt
                  /\ ent' = Append(ent, [q |-> caller[c].q, ps |-> 0, psHandles |-> 0,
                                         hit |-> 1])
                  /\ stmt' = stmt \cup {Len(ent')}
                  /\ stats' = [stats EXCEPT !.Misses = @ + 1]
                  /\ db' = db /\ caller'[c].pc = "idle"
            /\ caller[c].pc = "inc" =>
                  /\ ent' = [ent EXCEPT ![caller[c].s].hit = @ + 1]
                  /\ caller'[c].pc = "acq" /\ caller'[c].s = caller[c].s
            /\ caller[c].pc # "inc" => \A i \in DOMAIN ent : ent'[i].hit = ent[i].hit
            /\ (caller[c].pc # "acq" /\ caller'[c].pc = "acq") => caller[c].pc = "inc"
            /\ (caller[c].s # 0 /\ caller[c].pc \in {"tick", "cas", "spawn", "ins"}) =>
                  caller'[c].pc \in {"cas", "spawn", "inc"}
            /\ (caller[c].pc # "exec" /\ caller'[c].pc = "exec") => caller[c].pc = "acq"]_vars

\* C33 witness: one call is executing through the statement of an entry it has
\* counted a hit on, while another has counted its hit on an entry without
\* statement and is about to be served ad hoc
C33_Witness ==
    \E c, d \in Callers :
        /\ caller[c].pc = "exec" /\ ent[caller[c].s].hit >= 1
        /\ caller[d].pc = "acq" /\ ent[caller[d].s].ps = 0 /\ ent[caller[d].s].hit >= 2

\* ---------------------------------------------------------------- C34
\* C34: the tick counter changes only by a tick, which adds one, and by the
\* compare-and-swap of a call whose own tick took it above wrkThreshold, which
\* sets it to 0, so every reset follows more than wrkThreshold ticks since the
\* one before; only a call that has made this reset goes on to the launch; if a
\* cycle is running then, the call launches nothing and leaves the counter and
\* the cycle as they are, and a cycle that ends launches none.
C34_LaunchPerThreshold ==
    /\ [][hit' # hit =>
            \E c \in Callers :
                \/ caller[c].pc = "tick" /\ caller'[c] # caller[c] /\ hit' = hit + 1
                \/ /\ caller[c].pc = "cas" /\ caller'[c].pc = "spawn"
                   /\ caller[c].hit = hit /\ hit > wrkThreshold /\ hit' = 0]_vars
    /\ [][\A c \in Callers :
            (caller[c].pc # "spawn" /\ caller'[c].pc = "spawn") =>
                (caller[c].pc = "cas" /\ hit' = 0)]_vars
    /\ [][\A c \in Callers :
            (caller[c].pc = "spawn" /\ caller'[c] # caller[c] /\ wrkStatus = 1) =>
                /\ wrk' = wrk /\ wrkStatus' = 1 /\ hit' = hit
                /\ caller'[c] = [caller[c] EXCEPT !.pc = caller'[c].pc]
                /\ caller'[c].pc \in {"ins", "inc"}]_vars
    /\ [][(wrk.pc # "cand" /\ wrk'.pc = "cand") =>
            \E c \in Callers : caller[c].pc = "spawn" /\ caller'[c] # caller[c] /\ wrkStatus = 0]_vars

\* C34 witness: a call that has reset the counter finds a cycle running
C34_Witness ==
    \E c \in Callers :
        /\ caller[c].pc = "spawn" /\ wrkStatus = 1 /\ wrk.pc # "idle"
        /\ wrkThreshold >= 1 /\ hit = 0

\* C35: for every entry, handles equals the number of dispatcher calls that
\* are executing through its prepared statement.  A call whose acquire found a
\* statement raises handles by one and executes; when it returns, with a
\* result or with an error, its release lowers handles by exactly one, from a
\* value above zero; a call whose acquire found no statement ends without a
\* release; no other step changes handles.
C35_HandlesCountExecuting ==
    /\ [](\A s \in DOMAIN ent :
            ent[s].psHandles
              = Cardinality({c \in Callers : caller[c].pc = "exec" /\ caller[c].s = s}))
    /\ [][\A c \in Callers : caller'[c] # caller[c] =>
            /\ caller[c].pc = "acq" =>
                 LET s == caller[c].s IN
                 IF ent[s].ps # 0
                 THEN /\ caller'[c].pc = "exec" /\ caller'[c].s = s
                      /\ ent'[s].psHandles = ent[s].psHandles + 1
                 ELSE /\ caller'[c].pc = "idle"
                      /\ \A i \in DOMAIN ent : ent'[i].psHandles = ent[i].psHandles
            /\ caller[c].pc = "exec" =>
                 /\ caller'[c].pc = "idle"
                 /\ ent[caller[c].s].psHandles > 0
                 /\ ent'[caller[c].s].psHandles = ent[caller[c].s].psHandles - 1
            /\ caller[c].pc \notin {"acq", "exec"} =>
                 \A i \in DOMAIN ent : ent'[i].psHandles = ent[i].psHandles]_vars
    /\ [][(caller' = caller)
            => \A i \in DOMAIN ent : ent'[i].psHandles = ent[i].psHandles]_vars

\* two calls execute through the same statement, one of them answered with an
\* error, and the entry counts both
C35_Witness ==
    \E c, d \in Callers :
        /\ c # d
        /\ caller[c].pc = "exec" /\ caller[c].err
        /\ caller[d].pc = "exec" /\ ~caller[d].err
        /\ caller[c].s = caller[d].s
        /\ ent[caller[c].s].psHandles = 2

\* the calls that have entered getPS with an eligible query and have not yet
\* counted a hit or a miss
Undecided == {c \in Callers : caller[c].pc \in {"tick", "cas", "spawn", "ins", "inc", "acq"}}

\* the executions issued through prepared statements
RECURSIVE ExecsUpTo(_)
ExecsUpTo(n) == IF n = 0 THEN 0 ELSE db[n].execs + ExecsUpTo(n - 1)

\* C36: every eligible dispatcher call adds exactly one to exactly one of Hits
\* and Misses: Hits if and only if it acquired a handle and executes through
\* the prepared statement, Misses if and only if it runs the query ad hoc; and
\* it issues one execution, with no retry.  Every call that was begun is
\* either still on its way to the count or counted once; the hits are the
\* executions through statements; a step of a call counts a hit exactly when
\* it begins the execution through its statement and a miss exactly when it
\* ends the call without a handle; the return of an execution counts and
\* executes nothing more; and no call is stopped at its insertion before it
\* has counted or executed anything.
C36_CountsOnce ==
    /\ [](stats.Hits + stats.Misses + Cardinality(Undecided) = ncalls)
    /\ [](stats.Hits = ExecsUpTo(Len(db)))
    /\ [][\A c \in Callers : (caller'[c] # caller[c] /\ caller[c].pc # "idle") =>
            /\ (caller'[c].pc = "exec")
                 <=> (stats'.Hits = stats.Hits + 1 /\ stats'.Misses = stats.Misses)
            /\ (caller'[c].pc = "exec") =>
                 /\ caller[c].pc = "acq" /\ caller'[c].ps # 0
                 /\ db' = [db EXCEPT ![caller'[c].ps].execs = @ + 1]
                 /\ ent'[caller[c].s].psHandles = ent[caller[c].s].psHandles + 1
            /\ (caller'[c].pc = "idle" /\ caller[c].pc # "exec")
                 <=> (stats'.Misses = stats.Misses + 1 /\ stats'.Hits = stats.Hits)
            /\ (caller'[c].pc # "exec") => db' = db
            /\ (caller'[c].pc \notin {"exec", "idle"} \/ caller[c].pc = "exec")
                 => (stats'.Hits = stats.Hits /\ stats'.Misses = stats.Misses)]_vars
    /\ [](panicked = "assignment to entry in nil map" => \A c \in Callers : caller[c].pc # "ins")

\* C37: a prepared statement is stored into an entry only by wrk, in its put
\* of the statement it has just prepared into its replacement, and only when
\* that entry holds no statement at that moment, whatever the callers and
\* Close do in between.  An entry is created without a statement, an entry
\* that holds a statement changes it only to none, and no statement is held
\* by two entries.
C37_PutOnlyIntoAbsent ==
    /\ [][\A i \in DOMAIN ent' :
            IF i \in DOMAIN ent
            THEN /\ (ent'[i].ps # ent[i].ps /\ ent'[i].ps # 0) =>
                      /\ wrk.pc = "rput" /\ wrk'.pc = "rinc"
                      /\ i = wrk.replacement
                      /\ wrk.ps # 0 /\ ent'[i].ps = wrk.ps
                      /\ ent[i].ps = 0
                      /\ caller' = caller /\ cl' = cl
                 /\ (ent[i].ps # 0 /\ ent'[i].ps # ent[i].ps) => ent'[i].ps = 0
            ELSE ent'[i].ps = 0]_vars
    /\ [][(wrk.pc = "rput" /\ wrk' # wrk) =>
            /\ ent[wrk.replacement].ps = 0
            /\ ent'[wrk.replacement].ps = wrk.ps]_vars
    /\ [](\A i, j \in DOMAIN ent : (ent[i].ps # 0 /\ ent[i].ps = ent[j].ps) => i = j)

\* wrk has stored the statement it prepared into its replacement while Close
\* is tearing the cache down and a call is about to acquire that entry
C37_Witness ==
    /\ wrk.pc = "rinc"
    /\ ent[wrk.replacement].ps # 0
    /\ cl.pc \notin {"idle", "loop"}
    /\ \E c \in Callers : caller[c].pc = "acq" /\ caller[c].s = wrk.replacement

\* the goroutines that are inside an operation, and a step of one of them
Busy == (\E c \in Callers : caller[c].pc # "idle") \/ wrk.pc # "idle" \/ cl.pc # "idle"
StepOfBusy ==
    \/ \E c \in Callers : caller[c].pc # "idle" /\ Dispatch(c)
    \/ wrk.pc # "idle" /\ Wrk
    \/ cl.pc # "idle" /\ Close

\* C38: no interleaving of dispatcher calls, a cycle of wrk and Close reaches
\* a deadlock.  While the process runs, whenever some goroutine is inside an
\* operation one of them can take a step; a call that holds a handle can
\* release it whoever holds c.l; and in the end every call, the cycle and
\* Close have run to completion, unless a panic has stopped the process.
C38_NoDeadlock ==
    /\ []((Running /\ Busy) => ENABLED StepOfBusy)
    /\ [](\A c \in Callers : (Running /\ caller[c].pc = "exec") => ENABLED release(c))
    /\ <>[](~Busy \/ ~Running)

\* Close holds c.l and waits for the handle of a call that executes through
\* the statement, while another call waits for c.l to insert its entry and
\* the cycle waits for it to scan
C38_Witness ==
    /\ cl.pc = "wait" /\ lock = "Close"
    /\ ent[cl.s].psHandles > 0
    /\ wrk.pc = "cand"
    /\ \E c, d \in Callers :
          /\ caller[c].pc = "exec" /\ caller[c].s = cl.s
          /\ caller[d].pc = "ins"
====
